---- MODULE Spec2Model ----
(***************************************************************************)
(* Order-entry system: the account-aware matching engine                   *)
(* (app/matching_engine.py), the Lua matching script and the store         *)
(* helpers (app/redis_client.py) and the account ledger (app/accounts.py). *)
(*                                                                         *)
(* One symbol is modelled.  Every request handler and every background     *)
(* task step is one action: none of them suspends between its store        *)
(* calls (the store client is synchronous), so the event loop runs each    *)
(* of them to completion before the next one starts.  A task created with  *)
(* asyncio.create_task runs after the step that created it, and steps of   *)
(* other requests and of the two matching loops may run in between.        *)
(*                                                                         *)
(* Prices and quantities are small integers; an order id is the index of   *)
(* the order in `orders` and also its submission timestamp (the clock is   *)
(* strictly increasing).  The average cost of a position is not modelled.  *)
(*                                                                         *)
(* The store starts without orders and trades (startup clears them); the   *)
(* positions hash survives a restart, and the accounts start with a        *)
(* position in the symbol.                                                 *)
(***************************************************************************)
EXTENDS Integers, Sequences, FiniteSets, TLC

\* ---------------------------------------------------------------- bounds
MaxOrders == 3
MaxDeepOrders == 4
MaxGateOrders == 2
MaxPrice == 2
MaxQty == 2
MaxTasks == 1
MaxSettles == 2
SeedPosition == 2

Accounts == {"A", "B"}
\* An account id no account has.
UnknownAccount == "X"
Sides == {"buy", "sell"}
Prices == 1..MaxPrice
Qtys == 1..MaxQty

\* Balances of the seeded sample accounts (scaled down).
SampleBalance == [a \in Accounts |-> IF a = "A" THEN 4 ELSE 2]

\* Positions the accounts hold in the symbol at the start: one account can
\* deliver a full-size order, the other cannot.
SamplePosition ==
    [a \in Accounts |-> IF a = "A" THEN SeedPosition ELSE SeedPosition - 1]

VARIABLES
    orders,       \* oes:order:{id}      sequence of order records, index = id
    symOrders,    \* oes:symbol:{sym}:orders
    allOrders,    \* oes:orders
    acctOrders,   \* oes:account:{acct}:orders
    trades,       \* oes:trade:{id} / oes:trades, in creation order
    balance,      \* oes:accounts  (balance of each account)
    position,     \* oes:accounts:positions:{acct}  (quantity in the symbol)
    txns,         \* oes:accounts:transactions:{acct}  (newest first)
    active,       \* oes:accounts  (active flag of each account)
    matchTasks,   \* match_orders tasks created by edit_order, not yet run
    marketTasks,  \* process_market_order tasks created, not yet run
    notifications, \* trade_executed events published to a subscriber of
                  \* oes:notifications and not yet received by it
    luaTrades     \* trades the script returned to a match_orders call that
                  \* has not processed them yet

vars == <<orders, symOrders, allOrders, acctOrders, trades, balance, position,
          txns, active, matchTasks, marketTasks, notifications, luaTrades>>

Min(a, b) == IF a < b THEN a ELSE b

\* The store as one value, threaded through the operators below.
Cur ==
    [orders |-> orders, sym |-> symOrders, all |-> allOrders,
     acct |-> acctOrders, trades |-> trades, balance |-> balance,
     position |-> position, txns |-> txns, active |-> active]

Commit(S) ==
    /\ orders' = S.orders
    /\ symOrders' = S.sym
    /\ allOrders' = S.all
    /\ acctOrders' = S.acct
    /\ trades' = S.trades
    /\ balance' = S.balance
    /\ position' = S.position
    /\ txns' = S.txns
    /\ active' = S.active

\* ---------------------------------------------------------------- ledger

\* AccountManager.record_transaction: LPUSH of the transaction record.
record_transaction(S, account_id, transaction_type, amount, balance_after) ==
    [S EXCEPT !.txns[account_id] =
        <<[type |-> transaction_type, amount |-> amount,
           balance_after |-> balance_after]>> \o @]

\* AccountManager.adjust_account_balance: returns the new store and success.
adjust_account_balance(S, account_id, amount, transaction_type) ==
    IF account_id \notin DOMAIN S.balance
    THEN [S |-> S, ok |-> FALSE]
    ELSE LET new_balance == S.balance[account_id] + amount
             S1 == [S EXCEPT !.balance[account_id] = new_balance]
         IN [S |-> record_transaction(S1, account_id, transaction_type,
                                      amount, new_balance),
             ok |-> TRUE]

\* A position update that adds the magnitude of the change whatever its
\* sign, for the sensitivity check of the settlement contract.
update_position_unsigned(S, account_id, quantity_change) ==
    [S EXCEPT !.position[account_id] =
        @ + (IF quantity_change < 0 THEN -quantity_change
             ELSE quantity_change)]

\* AccountManager.update_position (quantity only).
update_position(S, account_id, quantity_change) ==
    [S EXCEPT !.position[account_id] = @ + quantity_change]

\* A settlement that debits the buyer and leaves the seller alone, for the
\* sensitivity check of cash conservation.
update_after_trade_debit_only(S, buy_account_id, sell_account_id, quantity, price) ==
    LET rb == adjust_account_balance(S, buy_account_id, -(quantity * price),
                                     "trade")
    IN IF rb.ok THEN update_position(rb.S, buy_account_id, quantity) ELSE rb.S

\* AccountManager.update_after_trade.
update_after_trade(S, buy_account_id, sell_account_id, quantity, price) ==
    LET trade_value == quantity * price
        rb == adjust_account_balance(S, buy_account_id, -trade_value, "trade")
        S1 == IF rb.ok THEN update_position(rb.S, buy_account_id, quantity)
                       ELSE rb.S
        rs == adjust_account_balance(S1, sell_account_id, trade_value, "trade")
        S2 == IF rs.ok THEN update_position(rs.S, sell_account_id, -quantity)
                       ELSE rs.S
    IN S2

\* A gate that refuses a buy whose value equals the balance and a sell of
\* the whole position, for the sensitivity check of the admission rule.
can_trade_strict(S, account_id, order_type, price, quantity) ==
    IF account_id \notin DOMAIN S.balance
    THEN [ok |-> FALSE, reason |-> <<"Account not found">>]
    ELSE IF ~S.active[account_id]
    THEN [ok |-> FALSE, reason |-> <<"Account is not active">>]
    ELSE IF order_type = "buy" /\ price * quantity >= S.balance[account_id]
    THEN [ok |-> FALSE,
          reason |-> <<"Insufficient funds", S.balance[account_id],
                       price * quantity>>]
    ELSE IF order_type = "sell" /\ S.position[account_id] <= quantity
    THEN [ok |-> FALSE, reason |-> <<"Insufficient position to sell">>]
    ELSE [ok |-> TRUE, reason |-> <<"Trade authorized">>]

\* AccountManager.can_trade: the verdict and its reason.
can_trade(S, account_id, order_type, price, quantity) ==
    IF account_id \notin DOMAIN S.balance
    THEN [ok |-> FALSE, reason |-> <<"Account not found">>]
    ELSE IF ~S.active[account_id]
    THEN [ok |-> FALSE, reason |-> <<"Account is not active">>]
    ELSE IF order_type = "buy" /\ price * quantity > S.balance[account_id]
    THEN [ok |-> FALSE,
          reason |-> <<"Insufficient funds", S.balance[account_id],
                       price * quantity>>]
    ELSE IF order_type = "sell" /\ S.position[account_id] < quantity
    THEN [ok |-> FALSE, reason |-> <<"Insufficient position to sell">>]
    ELSE [ok |-> TRUE, reason |-> <<"Trade authorized">>]

\* ---------------------------------------------------------------- sorting

\* sort_buy_orders / sort_sell_orders of the Lua script, and the sort keys
\* of _match_orders_python: price priority, then earlier timestamp.
sort_buy_orders(a, b) ==
    IF a.price = b.price THEN a.timestamp < b.timestamp ELSE a.price > b.price

sort_sell_orders(a, b) ==
    IF a.price = b.price THEN a.timestamp < b.timestamp ELSE a.price < b.price

RECURSIVE SortBuys(_, _)
SortBuys(ids, ords) ==
    IF ids = {} THEN <<>>
    ELSE LET m == CHOOSE x \in ids :
                    \A y \in ids \ {x} : sort_buy_orders(ords[x], ords[y])
         IN <<m>> \o SortBuys(ids \ {m}, ords)

RECURSIVE SortSells(_, _)
SortSells(ids, ords) ==
    IF ids = {} THEN <<>>
    ELSE LET m == CHOOSE x \in ids :
                    \A y \in ids \ {x} : sort_sell_orders(ords[x], ords[y])
         IN <<m>> \o SortSells(ids \ {m}, ords)

\* A status filter that lets cancelled orders through, for the sensitivity
\* check of the cancellation property.
IsActiveOrCancelled(o) == o.status \in {"open", "partially_filled", "cancelled"}

IsActive(o) == o.status \in {"open", "partially_filled"}

\* ---------------------------------------------------------------- Lua

\* One executed trade of the Lua loop: the trade record is stored, then the
\* two orders are updated and, when filled, removed from the three indices.
LuaFill(S, id, new_filled) ==
    LET o == S.orders[id] IN
    IF new_filled >= o.quantity
    THEN [S EXCEPT !.orders[id].status = "filled",
                   !.orders[id].filled_quantity = o.quantity,
                   !.sym = @ \ {id},
                   !.all = @ \ {id},
                   !.acct[o.account_id] = @ \ {id}]
    ELSE [S EXCEPT !.orders[id].status = "partially_filled",
                   !.orders[id].filled_quantity = new_filled]

\* Execution price of the Lua script.
LuaTradePrice(buy_order, sell_order) == sell_order.price

\* The Lua loop without its self-trade test, for the sensitivity check of
\* the self-trade property.
LuaSameAccountOff(buy_order, sell_order) == FALSE

\* Self-trade test of the Lua script.
LuaSameAccount(buy_order, sell_order) ==
    buy_order.account_id = sell_order.account_id

\* The Lua loop without its crossing test, for the sensitivity check of
\* the price-bound property.
LuaCrossesOff(buy_order, sell_order) == TRUE

\* The crossing test of the Lua script (the loop breaks when it is false).
LuaCrosses(buy_order, sell_order) == ~(buy_order.price < sell_order.price)

\* Trade quantity of the Lua script.
LuaTradeQuantity(buy_order, sell_order) ==
    Min(buy_order.quantity - buy_order.filled_quantity,
        sell_order.quantity - sell_order.filled_quantity)

RECURSIVE LuaLoop(_, _, _, _, _, _)
LuaLoop(S, buy_orders, sell_orders, buy_idx, sell_idx, executed_trades) ==
    IF ~(buy_idx <= Len(buy_orders) /\ sell_idx <= Len(sell_orders))
    THEN [S |-> S, trades |-> executed_trades]
    ELSE
    LET buy_id == buy_orders[buy_idx]
        sell_id == sell_orders[sell_idx]
        buy_order == S.orders[buy_id]
        sell_order == S.orders[sell_id]
    IN
    IF ~LuaCrosses(buy_order, sell_order)
    THEN [S |-> S, trades |-> executed_trades]
    ELSE IF LuaSameAccount(buy_order, sell_order)
    THEN IF buy_order.timestamp > sell_order.timestamp
         THEN LuaLoop(S, buy_orders, sell_orders, buy_idx + 1, sell_idx,
                      executed_trades)
         ELSE LuaLoop(S, buy_orders, sell_orders, buy_idx, sell_idx + 1,
                      executed_trades)
    ELSE
    LET trade_quantity == LuaTradeQuantity(buy_order, sell_order)
        trade == [buy_order_id |-> buy_id, sell_order_id |-> sell_id,
                  buy_account_id |-> buy_order.account_id,
                  sell_account_id |-> sell_order.account_id,
                  price |-> LuaTradePrice(buy_order, sell_order),
                  quantity |-> trade_quantity,
                  via |-> "lua"]
        new_buy_filled == buy_order.filled_quantity + trade_quantity
        new_sell_filled == sell_order.filled_quantity + trade_quantity
        S1 == [S EXCEPT !.trades = Append(@, trade)]
        S2 == LuaFill(S1, buy_id, new_buy_filled)
        S3 == LuaFill(S2, sell_id, new_sell_filled)
    IN LuaLoop(S3, buy_orders, sell_orders,
               IF new_buy_filled >= buy_order.quantity
                   THEN buy_idx + 1 ELSE buy_idx,
               IF new_sell_filled >= sell_order.quantity
                   THEN sell_idx + 1 ELSE sell_idx,
               Append(executed_trades, trade))

\* A fill test that never holds for an exact fill, for the sensitivity check
\* of the termination property.
LuaAdvancesStrict(order, new_filled) == new_filled > order.quantity

\* The fill test of the script: the index of an order moves on when the
\* order is fully filled.
LuaAdvances(order, new_filled) == new_filled >= order.quantity

\* The number of iterations of the matching loop of the script, counted up
\* to one more than the orders it was given (n: iterations so far).  An
\* iteration that ends the loop at the crossing test counts.
RECURSIVE LuaIterations(_, _, _, _, _, _)
LuaIterations(S, buy_orders, sell_orders, buy_idx, sell_idx, n) ==
    IF n > Len(buy_orders) + Len(sell_orders) THEN n
    ELSE IF ~(buy_idx <= Len(buy_orders) /\ sell_idx <= Len(sell_orders))
    THEN n
    ELSE
    LET buy_id == buy_orders[buy_idx]
        sell_id == sell_orders[sell_idx]
        buy_order == S.orders[buy_id]
        sell_order == S.orders[sell_id]
    IN
    IF ~LuaCrosses(buy_order, sell_order) THEN n + 1
    ELSE IF LuaSameAccount(buy_order, sell_order)
    THEN IF buy_order.timestamp > sell_order.timestamp
         THEN LuaIterations(S, buy_orders, sell_orders, buy_idx + 1, sell_idx,
                            n + 1)
         ELSE LuaIterations(S, buy_orders, sell_orders, buy_idx, sell_idx + 1,
                            n + 1)
    ELSE
    LET trade_quantity == LuaTradeQuantity(buy_order, sell_order)
        new_buy_filled == buy_order.filled_quantity + trade_quantity
        new_sell_filled == sell_order.filled_quantity + trade_quantity
        S2 == LuaFill(S, buy_id, new_buy_filled)
        S3 == LuaFill(S2, sell_id, new_sell_filled)
    IN LuaIterations(S3, buy_orders, sell_orders,
                     IF LuaAdvances(buy_order, new_buy_filled)
                         THEN buy_idx + 1 ELSE buy_idx,
                     IF LuaAdvances(sell_order, new_sell_filled)
                         THEN sell_idx + 1 ELSE sell_idx,
                     n + 1)

\* MATCH_ORDERS_SCRIPT / RedisClient.match_orders_lua: the open and
\* partially filled orders of the symbol set, sorted and matched.
match_orders_lua(S) ==
    LET buys == {i \in S.sym : IsActive(S.orders[i])
                                /\ S.orders[i].type = "buy"}
        sells == {i \in S.sym : IsActive(S.orders[i])
                                 /\ S.orders[i].type # "buy"}
    IN LuaLoop(S, SortBuys(buys, S.orders), SortSells(sells, S.orders),
               1, 1, <<>>)

\* ---------------------------------------------------------------- engine

\* A sweep that looks for filled orders only, for the sensitivity check of
\* the cleanup property.
force_cleanup_filled_only(S) ==
    LET closed(i) == S.orders[i].status = "filled"
        listed == S.sym \cup S.all \cup UNION {S.acct[a] : a \in Accounts}
        gone == {i \in listed : closed(i)}
    IN [S EXCEPT !.sym = @ \ gone,
                 !.all = @ \ gone,
                 !.acct = [a \in Accounts |-> @[a] \ gone]]

\* MatchingEngine.force_cleanup_filled_orders: every id of a filled or
\* cancelled order found in one of the three indices leaves all of them
\* (orders are never deleted, so there are no dangling ids).
force_cleanup_filled_orders(S) ==
    LET closed(i) == S.orders[i].status \in {"filled", "cancelled"}
        listed == S.sym \cup S.all \cup UNION {S.acct[a] : a \in Accounts}
        gone == {i \in listed : closed(i)}
    IN [S EXCEPT !.sym = @ \ gone,
                 !.all = @ \ gone,
                 !.acct = [a \in Accounts |-> @[a] \ gone]]

\* MatchingEngine.match_orders, the loop over the trades the Lua script
\* returned: the ledger is settled, then both orders of the trade are
\* saved as filled with filled_quantity = quantity and removed from the
\* three indices.
ForceFilled(S, id, account_id) ==
    [S EXCEPT !.orders[id].status = "filled",
              !.orders[id].filled_quantity = S.orders[id].quantity,
              !.all = @ \ {id},
              !.sym = @ \ {id},
              !.acct[account_id] = @ \ {id}]

RECURSIVE ProcessLuaTrades(_, _, _)
ProcessLuaTrades(S, lua_trades, i) ==
    IF i > Len(lua_trades) THEN S
    ELSE LET trade == lua_trades[i]
             S1 == update_after_trade(S, trade.buy_account_id,
                                      trade.sell_account_id,
                                      trade.quantity, trade.price)
             S2 == ForceFilled(S1, trade.buy_order_id, trade.buy_account_id)
             S3 == ForceFilled(S2, trade.sell_order_id, trade.sell_account_id)
         IN ProcessLuaTrades(S3, lua_trades, i + 1)

\* Execution price of _match_orders_python.
PyTradePrice(buy_order, sell_order) ==
    IF buy_order.timestamp < sell_order.timestamp
    THEN buy_order.price ELSE sell_order.price

\* The first sell order the inner loop of _match_orders_python does not
\* skip for a given buy order (0 when there is none).
RECURSIVE PyFirstSell(_, _, _, _)
PyFirstSell(S, buy_order, sell_orders, j) ==
    IF j > Len(sell_orders) THEN 0
    ELSE LET sell_order == S.orders[sell_orders[j]] IN
         IF sell_order.status = "filled"
            \/ buy_order.account_id = sell_order.account_id
         THEN PyFirstSell(S, buy_order, sell_orders, j + 1)
         ELSE sell_orders[j]

\* The first pair _match_orders_python matches (<<0, 0>> when none).
RECURSIVE PyFirstPair(_, _, _, _)
PyFirstPair(S, buy_orders, sell_orders, i) ==
    IF i > Len(buy_orders) THEN <<0, 0>>
    ELSE LET buy_order == S.orders[buy_orders[i]]
             s == PyFirstSell(S, buy_order, sell_orders, 1)
         IN IF buy_order.status = "filled" \/ s = 0
               \/ buy_order.price < S.orders[s].price
            THEN PyFirstPair(S, buy_orders, sell_orders, i + 1)
            ELSE <<buy_orders[i], s>>

\* MatchingEngine._match_orders_python.  All orders of the symbol set take
\* part, whatever their status, except the filled ones.  The first match
\* fills at least one of its two orders (the one with the smaller remaining
\* quantity); the removal of a filled order from the symbol set is
\* `await self.redis.srem(...)` on a plain function: the removal happens,
\* the await raises, and the pass ends there with the one trade.
PyMatch(S, buy_orders, sell_orders) ==
    LET pair == PyFirstPair(S, buy_orders, sell_orders, 1)
    IN
    IF buy_orders = <<>> \/ sell_orders = <<>> \/ pair = <<0, 0>>
    THEN [S |-> S, trades |-> <<>>]
    ELSE
    LET b == pair[1]
        s == pair[2]
        buy_order == S.orders[b]
        sell_order == S.orders[s]
        match_quantity == Min(buy_order.quantity - buy_order.filled_quantity,
                              sell_order.quantity - sell_order.filled_quantity)
        new_buy_filled == buy_order.filled_quantity + match_quantity
        new_sell_filled == sell_order.filled_quantity + match_quantity
        buy_status == IF new_buy_filled >= buy_order.quantity
                      THEN "filled" ELSE "partially_filled"
        sell_status == IF new_sell_filled >= sell_order.quantity
                       THEN "filled" ELSE "partially_filled"
        trade == [buy_order_id |-> b, sell_order_id |-> s,
                  buy_account_id |-> buy_order.account_id,
                  sell_account_id |-> sell_order.account_id,
                  price |-> PyTradePrice(buy_order, sell_order),
                  quantity |-> match_quantity,
                  via |-> "python"]
        S1 == [S EXCEPT !.orders[b].filled_quantity = new_buy_filled,
                        !.orders[b].status = buy_status,
                        !.orders[s].filled_quantity = new_sell_filled,
                        !.orders[s].status = sell_status,
                        !.trades = Append(@, trade)]
        S2 == IF buy_status = "filled"
              THEN [S1 EXCEPT !.sym = @ \ {b}]
              ELSE IF sell_status = "filled"
              THEN [S1 EXCEPT !.sym = @ \ {s}]
              ELSE S1
    IN [S |-> S2, trades |-> <<trade>>]

\* The two sorted lists _match_orders_python works on.
match_orders_python(S) ==
    PyMatch(S,
            SortBuys({i \in S.sym : S.orders[i].type = "buy"}, S.orders),
            SortSells({i \in S.sym : S.orders[i].type = "sell"}, S.orders))

\* MatchingEngine.match_orders: cleanup sweep, Lua pass, settlement of the
\* Lua trades.  With at least one Lua trade the method then reaches
\* `self.redis.publish(...)`, which RedisClient does not define: the
\* exception handler runs the Python matcher and returns its trades.
match_orders(S) ==
    LET S0 == force_cleanup_filled_orders(S)
        lua == match_orders_lua(S0)
    IN IF lua.trades = <<>>
       THEN [S |-> lua.S, trades |-> <<>>]
       ELSE match_orders_python(ProcessLuaTrades(lua.S, lua.trades, 1))

\* A settlement loop that applies update_after_trade twice per trade, for
\* the sensitivity check of the at-most-once settlement.
RECURSIVE SettleLuaTradesTwice(_, _, _)
SettleLuaTradesTwice(S, lua_trades, i) ==
    IF i > Len(lua_trades) THEN S
    ELSE LET trade == lua_trades[i]
             S1 == update_after_trade(S, trade.buy_account_id,
                                      trade.sell_account_id,
                                      trade.quantity, trade.price)
         IN SettleLuaTradesTwice(
                update_after_trade(S1, trade.buy_account_id,
                                   trade.sell_account_id,
                                   trade.quantity, trade.price),
                lua_trades, i + 1)

\* MatchingEngine.match_all_symbols for the one symbol: Lua pass, then the
\* settlement of each trade (the orders the script filled are already out
\* of the indices).
RECURSIVE SettleLuaTrades(_, _, _)
SettleLuaTrades(S, lua_trades, i) ==
    IF i > Len(lua_trades) THEN S
    ELSE LET trade == lua_trades[i] IN
         SettleLuaTrades(update_after_trade(S, trade.buy_account_id,
                                            trade.sell_account_id,
                                            trade.quantity, trade.price),
                         lua_trades, i + 1)

match_all_symbols(S) ==
    IF S.sym = {} THEN S
    ELSE LET lua == match_orders_lua(S)
         IN SettleLuaTrades(lua.S, lua.trades, 1)

\* ---------------------------------------------------------------- market

RECURSIVE Perms(_)
Perms(ids) ==
    IF ids = {} THEN {<<>>}
    ELSE UNION {{<<x>> \o p : p \in Perms(ids \ {x})} : x \in ids}

\* The orders process_market_order may walk, in every order its sort can
\* give: the sort key is the price alone and the sort is stable, so orders
\* of equal price keep the (unspecified) order of SMEMBERS.
MatchingOrders(S, order_id) ==
    LET order == S.orders[order_id]
        is_buy == order.type = "buy"
        opposite_side == IF is_buy THEN "sell" ELSE "buy"
        ids == {i \in S.sym : /\ S.orders[i].type = opposite_side
                              /\ S.orders[i].status = "open"
                              /\ S.orders[i].account_id # order.account_id}
    IN {p \in Perms(ids) :
          \A k \in 1..(Len(p) - 1) :
             IF is_buy THEN S.orders[p[k]].price <= S.orders[p[k + 1]].price
                       ELSE S.orders[p[k]].price >= S.orders[p[k + 1]].price}

\* The execution price process_market_order keeps on the market order, as
\* an exact fraction <<numerator, denominator>> (<<>>: no such field yet).
\* The first fill sets it to the fill price; a later one to
\* (execution_price * (filled_quantity - match_quantity)
\*  + match_price * match_quantity) / filled_quantity.
ExecutionPrice(execution_price, filled_quantity, match_price, match_quantity) ==
    IF execution_price = <<>> THEN <<match_price, 1>>
    ELSE LET prev_exec_qty == filled_quantity - match_quantity IN
         <<execution_price[1] * prev_exec_qty
             + match_price * match_quantity * execution_price[2],
           execution_price[2] * filled_quantity>>

\* The loop of process_market_order over matching_orders.
RECURSIVE MarketLoop(_, _, _, _, _)
MarketLoop(S, order_id, matching_orders, k, remaining_quantity) ==
    IF k > Len(matching_orders) \/ remaining_quantity <= 0
    THEN [S |-> S, remaining |-> remaining_quantity]
    ELSE
    LET match_order_id == matching_orders[k]
        match_order == S.orders[match_order_id]
        order == S.orders[order_id]
        is_buy == order.type = "buy"
        match_available == match_order.quantity - match_order.filled_quantity
        match_quantity == Min(remaining_quantity, match_available)
        trade == [buy_order_id |-> IF is_buy THEN order_id ELSE match_order_id,
                  sell_order_id |-> IF is_buy THEN match_order_id ELSE order_id,
                  buy_account_id |-> IF is_buy THEN order.account_id
                                     ELSE match_order.account_id,
                  sell_account_id |-> IF is_buy THEN match_order.account_id
                                      ELSE order.account_id,
                  price |-> match_order.price,
                  quantity |-> match_quantity,
                  via |-> "market"]
        order_filled == order.filled_quantity + match_quantity
        match_filled == match_order.filled_quantity + match_quantity
        S1 == [S EXCEPT
                 !.trades = Append(@, trade),
                 !.orders[order_id].filled_quantity = order_filled,
                 !.orders[order_id].execution_price =
                     ExecutionPrice(order.execution_price, order_filled,
                                    match_order.price, match_quantity),
                 !.orders[order_id].status =
                     IF order_filled >= order.quantity
                     THEN "filled" ELSE "partially_filled",
                 !.orders[match_order_id].filled_quantity = match_filled,
                 !.orders[match_order_id].status =
                     IF match_filled >= match_order.quantity
                     THEN "filled" ELSE "partially_filled"]
    IN IF match_available <= 0
       THEN MarketLoop(S, order_id, matching_orders, k + 1, remaining_quantity)
       ELSE MarketLoop(S1, order_id, matching_orders, k + 1,
                       remaining_quantity - match_quantity)

\* MatchingEngine.process_market_order, for one order of matching_orders.
process_market_order(S, order_id, matching_orders) ==
    LET order == S.orders[order_id] IN
    IF order.order_type # "market" \/ order.quantity <= 0 THEN S
    ELSE IF matching_orders = <<>>
    THEN [S EXCEPT !.orders[order_id].status = "pending"]
    ELSE LET r == MarketLoop(S, order_id, matching_orders, 1, order.quantity)
             filled == r.S.orders[order_id].filled_quantity
         IN IF r.remaining > 0 /\ filled > 0
            THEN [r.S EXCEPT !.orders[order_id].status = "partially_filled"]
            ELSE IF r.remaining > 0
            THEN [r.S EXCEPT !.orders[order_id].status = "pending"]
            ELSE r.S

\* ---------------------------------------------------------------- actions

NewOrder(account_id, side, order_type, price, quantity) ==
    [account_id |-> account_id, type |-> side, order_type |-> order_type,
     price |-> price, quantity |-> quantity, filled_quantity |-> 0,
     status |-> "open", timestamp |-> Len(orders) + 1,
     tif |-> "day", execution_price |-> <<>>]

\* The order is saved and added to the three indices.
StoreOrder(S, order) ==
    LET id == Len(S.orders) + 1 IN
    [S EXCEPT !.orders = Append(@, order),
              !.all = @ \cup {id},
              !.acct[order.account_id] = @ \cup {id},
              !.sym = @ \cup {id}]

\* MatchingEngine.submit_order (a limit order).  A rejected order is
\* returned without being saved.  The trades match_orders returns are those
\* of the Python matcher, which carry no buy_quantity / sell_quantity: the
\* status update after the match pass changes nothing in the store.
\* The required fields of submit_order, in the order it tests them (the
\* symbol is not modelled).
RequiredFields == {"price", "quantity", "type", "account_id"}

FieldRank(f) ==
    CASE f = "price" -> 1 [] f = "quantity" -> 2 [] f = "type" -> 3
      [] f = "account_id" -> 4

MissingFields(order) == RequiredFields \ DOMAIN order

\* A submit that runs the match pass for a rejected order too, for the
\* sensitivity check of the no-side-effect property.
submit_order_always_matching(S, order) ==
    IF MissingFields(order) # {} THEN match_orders(S).S
    ELSE IF ~can_trade(S, order.account_id, order.type, order.price,
                       order.quantity).ok
    THEN match_orders(S).S
    ELSE match_orders(StoreOrder(S, order)).S

submit_order(S, order) ==
    IF MissingFields(order) # {} THEN S
    ELSE IF ~can_trade(S, order.account_id, order.type, order.price,
                       order.quantity).ok
    THEN S
    ELSE match_orders(StoreOrder(S, order)).S

\* What submit_order returns: the status of the order and, for a rejected
\* order, the reason.  The status update after the match pass never
\* applies, so an admitted order is returned as open.
submit_order_reply(S, order) ==
    IF MissingFields(order) # {}
    THEN [status |-> "rejected",
          reject_reason |-> <<"Missing required field",
                              CHOOSE f \in MissingFields(order) :
                                 \A g \in MissingFields(order) :
                                    FieldRank(f) <= FieldRank(g)>>]
    ELSE LET r == can_trade(S, order.account_id, order.type, order.price,
                            order.quantity)
         IN IF ~r.ok
            THEN [status |-> "rejected", reject_reason |-> r.reason]
            ELSE [status |-> "open", reject_reason |-> <<>>]

\* The end of submit_order for an admitted order: the dict it returns is the
\* one it stored before the match pass.  The loop over the trades of the
\* pass reads trade['buy_quantity'] / trade['sell_quantity'] of a trade
\* that names the order; the trades match_orders returns are those of the
\* Python matcher, which have no such field, so the loop raises KeyError
\* for such a trade and changes nothing otherwise.
submit_order_returned(S, order) ==
    LET id == Len(S.orders) + 1
        r == match_orders(StoreOrder(S, order))
    IN [order |-> order,
        raised |-> \E k \in 1..Len(r.trades) :
                      \/ r.trades[k].buy_order_id = id
                      \/ r.trades[k].sell_order_id = id]

SubmitOrderOf(quantities, max_orders) ==
    \E a \in Accounts \cup {UnknownAccount}, side \in Sides, p \in Prices, q \in quantities :
        /\ Len(orders) < max_orders
        /\ Commit(submit_order(Cur, NewOrder(a, side, "limit", p, q)))
        /\ UNCHANGED <<matchTasks, marketTasks, notifications, luaTrades>>

SubmitOrder == SubmitOrderOf(Qtys, MaxOrders)

\* create_order_direct for a market order: the order is stored with price 0
\* without any check, and a process_market_order task is created.
CreateOrderDirectOf(quantities, max_orders) ==
    \E a \in Accounts, side \in Sides, q \in quantities :
        /\ Len(orders) < max_orders
        /\ Commit(StoreOrder(Cur, NewOrder(a, side, "market", 0, q)))
        /\ marketTasks' = marketTasks \cup {Len(orders) + 1}
        /\ UNCHANGED <<matchTasks, notifications, luaTrades>>

CreateOrderDirect == CreateOrderDirectOf(Qtys, MaxOrders)

ProcessMarketOrder ==
    \E id \in marketTasks :
        \E matching_orders \in MatchingOrders(Cur, id) :
            /\ Commit(process_market_order(Cur, id, matching_orders))
            /\ marketTasks' = marketTasks \ {id}
            /\ UNCHANGED <<matchTasks, notifications, luaTrades>>

\* A cancel without the ownership test, for the sensitivity check of the
\* authorization property.
cancel_order_unowned(S, order_id, account_id) ==
    IF order_id \notin 1..Len(S.orders) THEN S
    ELSE IF S.orders[order_id].status # "open" THEN S
    ELSE [S EXCEPT !.orders[order_id].status = "cancelled"]

\* A cancel without the status test, for the sensitivity check of the
\* closed-order property.
cancel_order_any_status(S, order_id, account_id) ==
    IF order_id \notin 1..Len(S.orders) THEN S
    ELSE IF S.orders[order_id].account_id # account_id THEN S
    ELSE [S EXCEPT !.orders[order_id].status = "cancelled"]

\* MatchingEngine.cancel_order.
cancel_order(S, order_id, account_id) ==
    IF order_id \notin 1..Len(S.orders) THEN S
    ELSE IF S.orders[order_id].account_id # account_id THEN S
    ELSE IF S.orders[order_id].status # "open" THEN S
    ELSE [S EXCEPT !.orders[order_id].status = "cancelled"]

\* What cancel_order returns.
cancel_order_reply(S, order_id, account_id) ==
    IF order_id \notin 1..Len(S.orders)
    THEN [success |-> FALSE, message |-> <<"Order not found">>]
    ELSE IF S.orders[order_id].account_id # account_id
    THEN [success |-> FALSE,
          message |-> <<"Not authorized to cancel this order">>]
    ELSE IF S.orders[order_id].status # "open"
    THEN [success |-> FALSE,
          message |-> <<"Order cannot be cancelled - status is",
                        S.orders[order_id].status>>]
    ELSE [success |-> TRUE, message |-> <<"Order cancelled successfully">>]

\* The ids a client can name in a request: an order id is generated by the
\* server and reaches the clients with the response of the request that
\* stored the order; the process_market_order task of a market order was
\* put on the event loop's queue before that response, so it has run when
\* the first request naming the id is served.
KnownIds == (1..Len(orders)) \ marketTasks

CancelOrder ==
    \E id \in KnownIds, a \in Accounts :
        /\ Commit(cancel_order(Cur, id, a))
        /\ UNCHANGED <<matchTasks, marketTasks, notifications, luaTrades>>

\* An edit test that ignores the status of the order, for the sensitivity
\* check of the terminal-status property.
EditAcceptedAnyStatus(S, order_id, price, quantity) ==
    /\ order_id \in 1..Len(S.orders)
    /\ ~(price # 0 /\ price # S.orders[order_id].price)
    /\ quantity # S.orders[order_id].quantity

\* MatchingEngine.edit_order with a new quantity (price 0: no price given).
\* A changed price ends in the exception handler before anything is saved
\* (the book keys the method names are not defined in its module).
EditAccepted(S, order_id, price, quantity) ==
    /\ order_id \in 1..Len(S.orders)
    /\ IsActive(S.orders[order_id])
    /\ ~(price # 0 /\ price # S.orders[order_id].price)
    /\ quantity # S.orders[order_id].quantity

edit_order(S, order_id, price, quantity) ==
    IF ~EditAccepted(S, order_id, price, quantity) THEN S
    ELSE LET order == S.orders[order_id] IN
         [S EXCEPT !.orders[order_id].quantity = quantity,
                   !.all = @ \cup {order_id},
                   !.sym = @ \cup {order_id},
                   !.acct[order.account_id] = @ \cup {order_id}]

\* POST /api/orders/{order_id}/edit, asked by a client acting for the
\* account `requester`: the request carries no account id and the handler
\* passes the edit on to MatchingEngine.edit_order.
orders_router_edit_order(S, requester, order_id, price, quantity) ==
    edit_order(S, order_id, price, quantity)

EditOrderOf(quantities) ==
    \E id \in KnownIds, p \in {0} \cup Prices, q \in quantities :
        /\ EditAccepted(Cur, id, p, q) => matchTasks < MaxTasks
        /\ Commit(edit_order(Cur, id, p, q))
        /\ matchTasks' = IF EditAccepted(Cur, id, p, q)
                         THEN matchTasks + 1 ELSE matchTasks
        /\ UNCHANGED <<marketTasks, notifications, luaTrades>>

EditOrder == EditOrderOf(Qtys)

\* The match_orders task edit_order created.
RunMatchTask ==
    /\ matchTasks > 0
    /\ Commit(match_orders(Cur).S)
    /\ matchTasks' = matchTasks - 1
    /\ UNCHANGED <<marketTasks, notifications, luaTrades>>

\* One round of periodic_order_matching.
PeriodicMatch ==
    /\ Commit(match_all_symbols(Cur))
    /\ UNCHANGED <<matchTasks, marketTasks, notifications, luaTrades>>

\* One round of start_auto_matching: cleanup sweep, then match_all_symbols.
AutoMatchCycle ==
    /\ Commit(match_all_symbols(force_cleanup_filled_orders(Cur)))
    /\ UNCHANGED <<matchTasks, marketTasks, notifications, luaTrades>>

Init ==
    /\ orders = <<>>
    /\ symOrders = {}
    /\ allOrders = {}
    /\ acctOrders = [a \in Accounts |-> {}]
    /\ trades = <<>>
    /\ balance = SampleBalance
    /\ position = SamplePosition
    /\ active = [a \in Accounts |-> TRUE]
    /\ txns = [a \in Accounts |->
                 <<[type |-> "deposit", amount |-> SampleBalance[a],
                    balance_after |-> SampleBalance[a]]>>]
    /\ matchTasks = 0
    /\ marketTasks = {}
    /\ notifications = {}
    /\ luaTrades = <<>>

Next ==
    \/ SubmitOrder
    \/ CreateOrderDirect
    \/ ProcessMarketOrder
    \/ CancelOrder
    \/ EditOrder
    \/ RunMatchTask
    \/ PeriodicMatch
    \/ AutoMatchCycle

Spec == Init /\ [][Next]_vars

\* The same system with one more order and unit quantities only (so no
\* quantity edit): deep enough for the Python matcher to find a pair after
\* a Lua pass that traded.
DeepSubmitOrder == SubmitOrderOf({1}, MaxDeepOrders)

DeepCreateOrderDirect == CreateOrderDirectOf({1}, MaxDeepOrders)

DeepNext ==
    \/ DeepSubmitOrder
    \/ DeepCreateOrderDirect
    \/ ProcessMarketOrder
    \/ CancelOrder
    \/ PeriodicMatch
    \/ AutoMatchCycle

SpecDeep == Init /\ [][DeepNext]_vars

\* The admission gate: submissions, complete or not, by known and unknown
\* accounts, while accounts are deactivated and reactivated. SpecReject adds
\* cancels, which leave work for a match pass.

\* update_account with an active flag (name, type and risk level are not
\* modelled; a balance given in the same request is overwritten by the
\* final save of the account loaded at the start).
UpdateAccount ==
    \E a \in Accounts, v \in BOOLEAN :
        /\ active' = [active EXCEPT ![a] = v]
        /\ UNCHANGED <<orders, symOrders, allOrders, acctOrders, trades,
                       balance, position, txns, matchTasks, marketTasks,
                       notifications, luaTrades>>

WithoutField(order, f) == [g \in DOMAIN order \ {f} |-> order[g]]

\* submit_order with an order that lacks a required field.
SubmitIncompleteOrder ==
    \E a \in Accounts, side \in Sides, p \in Prices, q \in Qtys,
       f \in RequiredFields :
        /\ Len(orders) < MaxGateOrders
        /\ Commit(submit_order(Cur, WithoutField(
                      NewOrder(a, side, "limit", p, q), f)))
        /\ UNCHANGED <<matchTasks, marketTasks, notifications, luaTrades>>

GateSubmitOrder == SubmitOrderOf(Qtys, MaxGateOrders)

GateNext ==
    \/ GateSubmitOrder
    \/ SubmitIncompleteOrder
    \/ UpdateAccount

SpecGate == Init /\ [][GateNext]_vars

RejectNext ==
    \/ GateSubmitOrder
    \/ SubmitIncompleteOrder
    \/ UpdateAccount
    \/ CancelOrder

SpecReject == Init /\ [][RejectNext]_vars

\* Submissions that carry a time in force.  The field is stored with the
\* order; submit_order never reads it.
Tifs == {"day", "gtc", "ioc", "fok"}

TifOrder(account_id, side, price, quantity, tif) ==
    [NewOrder(account_id, side, "limit", price, quantity) EXCEPT !.tif = tif]

SubmitTifOrder ==
    \E a \in Accounts, side \in Sides, p \in Prices, q \in Qtys, tif \in Tifs :
        /\ Len(orders) < MaxGateOrders
        /\ Commit(submit_order(Cur, TifOrder(a, side, p, q, tif)))
        /\ UNCHANGED <<matchTasks, marketTasks, notifications, luaTrades>>

TifNext ==
    \/ SubmitTifOrder
    \/ CancelOrder

SpecTif == Init /\ [][TifNext]_vars

\* Market orders under the continuous drivers: every created
\* process_market_order task is run by the event loop, and the two matching
\* loops (periodic_order_matching, start_auto_matching) never stop.
GateCreateOrderDirect == CreateOrderDirectOf(Qtys, MaxGateOrders)

PendingNext ==
    \/ GateSubmitOrder
    \/ GateCreateOrderDirect
    \/ ProcessMarketOrder
    \/ PeriodicMatch
    \/ AutoMatchCycle

\* A round of a matching loop that would change the store.
PeriodicMatchPending == match_all_symbols(Cur) # Cur

AutoMatchCyclePending ==
    match_all_symbols(force_cleanup_filled_orders(Cur)) # Cur

\* Weak fairness of the task runner and of the two loops (for a loop, with
\* its enabling condition written as a state predicate).
SpecPending ==
    /\ Init /\ [][PendingNext]_vars
    /\ WF_vars(ProcessMarketOrder)
    /\ ([]<>~PeriodicMatchPending \/ []<><<PeriodicMatch>>_vars)
    /\ ([]<>~AutoMatchCyclePending \/ []<><<AutoMatchCycle>>_vars)

\* Replay of submissions that carry their own timestamp (submit_order keeps
\* a timestamp the caller supplies), so that two orders can share price and
\* timestamp.  The comparators of the Lua script and the sort keys of
\* _match_orders_python do not order two such orders, and the lists they
\* sort come from SMEMBERS, whose order is unspecified: every list that is
\* sorted by the comparator can be the result.
SortedBuyLists(ids, ords) ==
    {p \in Perms(ids) :
        \A k \in 1..(Len(p) - 1) : ~sort_buy_orders(ords[p[k + 1]], ords[p[k]])}

SortedSellLists(ids, ords) ==
    {p \in Perms(ids) :
        \A k \in 1..(Len(p) - 1) : ~sort_sell_orders(ords[p[k + 1]], ords[p[k]])}

\* MatchingEngine.match_orders with every result of the sorts: the set of
\* the stores it can leave.
match_orders_replay(S) ==
    LET S0 == force_cleanup_filled_orders(S)
        buys == {i \in S0.sym : IsActive(S0.orders[i])
                                 /\ S0.orders[i].type = "buy"}
        sells == {i \in S0.sym : IsActive(S0.orders[i])
                                  /\ S0.orders[i].type # "buy"}
        python(S1) ==
            {PyMatch(S1, pb, ps).S :
                pb \in SortedBuyLists({i \in S1.sym : S1.orders[i].type = "buy"},
                                      S1.orders),
                ps \in SortedSellLists({i \in S1.sym : S1.orders[i].type = "sell"},
                                       S1.orders)}
        pass(b, s) ==
            LET lua == LuaLoop(S0, b, s, 1, 1, <<>>) IN
            IF lua.trades = <<>> THEN {lua.S}
            ELSE python(ProcessLuaTrades(lua.S, lua.trades, 1))
    IN UNION {pass(b, s) :
                b \in SortedBuyLists(buys, S0.orders),
                s \in SortedSellLists(sells, S0.orders)}

\* MatchingEngine.submit_order with every result of the sorts.
submit_order_replay(S, order) ==
    IF MissingFields(order) # {} THEN {S}
    ELSE IF ~can_trade(S, order.account_id, order.type, order.price,
                       order.quantity).ok
    THEN {S}
    ELSE match_orders_replay(StoreOrder(S, order))

MaxStamp == 2
Stamps == 1..MaxStamp

ReplayOrder(account_id, side, price, quantity, timestamp) ==
    [NewOrder(account_id, side, "limit", price, quantity)
        EXCEPT !.timestamp = timestamp]

ReplayOrders ==
    {ReplayOrder(a, side, p, q, ts) :
        a \in Accounts, side \in Sides, p \in Prices, q \in Qtys, ts \in Stamps}

ReplaySubmit ==
    \E order \in ReplayOrders :
        /\ Len(orders) < MaxOrders
        /\ \E S \in submit_order_replay(Cur, order) : Commit(S)
        /\ UNCHANGED <<matchTasks, marketTasks, notifications, luaTrades>>

SpecReplay == Init /\ [][ReplaySubmit]_vars

\* Edits to any quantity: OrderEdit.quantity is an int without a lower
\* bound, so an order can be edited to its filled quantity, to zero or
\* below, and the script then finds a remaining quantity that is not
\* positive.
MaxEditBelowZero == 1
EditQtys == (-MaxEditBelowZero)..MaxQty

EditAnyQuantity == EditOrderOf(EditQtys)

TerminateNext ==
    \/ SubmitOrder
    \/ ProcessMarketOrder
    \/ CreateOrderDirect
    \/ EditAnyQuantity
    \/ RunMatchTask
    \/ PeriodicMatch

SpecTerminate == Init /\ [][TerminateNext]_vars

\* Continuous matching: limit orders are submitted and the two matching
\* loops run for ever, each under weak fairness (for the auto-matching
\* loop, with its enabling condition written as a state predicate).
ContinuousNext ==
    \/ SubmitOrder
    \/ PeriodicMatch
    \/ AutoMatchCycle

SpecContinuous ==
    /\ Init /\ [][ContinuousNext]_vars
    /\ WF_vars(PeriodicMatch)
    /\ ([]<>~AutoMatchCyclePending \/ []<><<AutoMatchCycle>>_vars)

\* The notification channel.  A subscriber of oes:notifications is another
\* client of the store: the store serves it between two commands of a
\* request handler.  match_orders is followed in its two parts: up to the
\* return of the script, which publishes a trade_executed event for every
\* trade it makes (PUBLISH, before its own order updates, all in one atomic
\* script), and from there to the end, where the engine settles each trade,
\* marks its orders filled and publishes a second event for it; the
\* fallback matcher publishes one event for the trade it records.  An event
\* is the index of its trade in `trades` and the publisher.
NotifyEvents(first, count, by) ==
    {[trade |-> first + i - 1, by |-> by] : i \in 1..count}

\* submit_order up to the return of the script.
NotifySubmit ==
    \E a \in Accounts, side \in Sides, p \in Prices, q \in Qtys :
        LET order == NewOrder(a, side, "limit", p, q)
            lua == match_orders_lua(
                       force_cleanup_filled_orders(StoreOrder(Cur, order)))
        IN /\ luaTrades = <<>>
           /\ Len(orders) < MaxOrders
           /\ IF can_trade(Cur, a, side, p, q).ok
              THEN /\ Commit(lua.S)
                   /\ luaTrades' = lua.trades
                   /\ notifications' =
                        notifications
                          \cup NotifyEvents(Len(trades) + 1, Len(lua.trades),
                                            "script")
              ELSE UNCHANGED vars
           /\ UNCHANGED <<matchTasks, marketTasks>>

\* The rest of match_orders: settlement and forced fill of the trades the
\* script returned, one event per trade, then the fallback matcher.
NotifySettle ==
    LET settled == ProcessLuaTrades(Cur, luaTrades, 1)
        python == match_orders_python(settled)
    IN /\ luaTrades # <<>>
       /\ Commit(python.S)
       /\ luaTrades' = <<>>
       /\ notifications' =
            notifications
              \cup NotifyEvents(Len(trades) - Len(luaTrades) + 1,
                                Len(luaTrades), "engine")
              \cup NotifyEvents(Len(trades) + 1, Len(python.trades),
                                "fallback")
       /\ UNCHANGED <<matchTasks, marketTasks>>

\* The subscriber receives one event.
ReceiveNotification ==
    \E e \in notifications :
        /\ notifications' = notifications \ {e}
        /\ UNCHANGED <<orders, symOrders, allOrders, acctOrders, trades,
                       balance, position, txns, active, matchTasks,
                       marketTasks, luaTrades>>

NotifyNext ==
    \/ NotifySubmit
    \/ NotifySettle
    \/ ReceiveNotification

SpecNotify == Init /\ [][NotifyNext]_vars

\* The ledger alone: settlements of trades between the accounts of a ledger
\* with three accounts, applied one after the other.
LedgerAccounts == Accounts \cup {"C"}

LedgerBalance ==
    [a \in LedgerAccounts |-> IF a \in Accounts THEN SampleBalance[a] ELSE 1]

LedgerInit ==
    /\ orders = <<>>
    /\ symOrders = {}
    /\ allOrders = {}
    /\ acctOrders = [a \in Accounts |-> {}]
    /\ trades = <<>>
    /\ balance = LedgerBalance
    /\ position = [a \in LedgerAccounts |-> SeedPosition]
    /\ active = [a \in LedgerAccounts |-> TRUE]
    /\ txns = [a \in LedgerAccounts |->
                 <<[type |-> "deposit", amount |-> LedgerBalance[a],
                    balance_after |-> LedgerBalance[a]]>>]
    /\ matchTasks = 0
    /\ marketTasks = {}
    /\ notifications = {}
    /\ luaTrades = <<>>

SettledTrades ==
    Cardinality({<<a, k>> \in LedgerAccounts \X (1..(2 * MaxSettles + 1)) :
                    k <= Len(txns[a]) /\ txns[a][k].type = "trade"}) \div 2

SettleTrade ==
    \E b \in LedgerAccounts, s \in LedgerAccounts, q \in Qtys, p \in Prices :
        /\ SettledTrades < MaxSettles
        /\ Commit(update_after_trade(Cur, b, s, q, p))
        /\ UNCHANGED <<matchTasks, marketTasks, notifications, luaTrades>>

SpecLedger == LedgerInit /\ [][SettleTrade]_vars

\* The journal: every request that writes a balance (the transaction
\* endpoint, the account update carrying a balance, a settlement), on the
\* two sample accounts. A transaction of an unknown type is refused with
\* 400 before any write and is left out.
MaxAmount == 2
MaxTxns == 3
Amounts == (-MaxAmount)..MaxAmount
NewBalances == 0..MaxAmount
TransactionTypes == {"deposit", "adjustment", "withdrawal"}

\* AccountManager.update_account_balance: sets the balance, records nothing.
update_account_balance(S, account_id, new_balance) ==
    IF account_id \notin DOMAIN S.balance THEN S
    ELSE [S EXCEPT !.balance[account_id] = new_balance]

\* An account update whose final save is left out, so that the write of
\* update_account_balance stays, for the sensitivity check of the journal.
update_account_unsaved(S, account_id, new_balance, new_active) ==
    [update_account_balance(S, account_id, new_balance)
        EXCEPT !.active[account_id] = new_active]

\* PUT /accounts/{account_id} with a balance and an active flag: the account
\* is loaded, update_account_balance writes its own copy, and the final
\* _save_account writes the copy loaded at the start.
update_account(S, account_id, new_balance, new_active) ==
    LET account == [balance |-> S.balance[account_id],
                    active |-> new_active]
        S1 == update_account_balance(S, account_id, new_balance)
    IN [S1 EXCEPT !.balance[account_id] = account.balance,
                  !.active[account_id] = account.active]

\* POST /accounts/{account_id}/transactions.
create_transaction(S, account_id, amount, transaction_type) ==
    IF transaction_type = "withdrawal"
    THEN adjust_account_balance(S, account_id,
                                -(IF amount < 0 THEN -amount ELSE amount),
                                "withdrawal").S
    ELSE adjust_account_balance(S, account_id, amount, transaction_type).S

CreateTransaction ==
    \E a \in Accounts, amount \in Amounts, t \in TransactionTypes :
        /\ Len(txns[a]) < MaxTxns
        /\ Commit(create_transaction(Cur, a, amount, t))
        /\ UNCHANGED <<matchTasks, marketTasks, notifications, luaTrades>>

UpdateAccountBalance ==
    \E a \in Accounts, b \in NewBalances, v \in BOOLEAN :
        /\ Commit(update_account(Cur, a, b, v))
        /\ UNCHANGED <<matchTasks, marketTasks, notifications, luaTrades>>

JournalSettle ==
    \E b \in Accounts, s \in Accounts, q \in Qtys, p \in Prices :
        /\ Len(txns[b]) < MaxTxns
        /\ Len(txns[s]) < MaxTxns
        /\ b # s
        /\ Commit(update_after_trade(Cur, b, s, q, p))
        /\ UNCHANGED <<matchTasks, marketTasks, notifications, luaTrades>>

JournalNext ==
    \/ CreateTransaction
    \/ UpdateAccountBalance
    \/ JournalSettle

SpecJournal == Init /\ [][JournalNext]_vars

\* ---------------------------------------------------------------- properties

TradeIds == 1..Len(trades)
OrderIds == 1..Len(orders)

BuyOrderOf(t) == orders[t.buy_order_id]
SellOrderOf(t) == orders[t.sell_order_id]

BothLimit(t) ==
    BuyOrderOf(t).order_type = "limit" /\ SellOrderOf(t).order_type = "limit"

RECURSIVE SumOver(_, _)
SumOver(f, accts) ==
    IF accts = {} THEN 0
    ELSE LET a == CHOOSE x \in accts : TRUE
         IN f[a] + SumOver(f, accts \ {a})

TradeTxns(a) == {k \in 1..Len(txns[a]) : txns[a][k].type = "trade"}

\* C2: matching leaves the sum of all cash balances unchanged (every
\* settlement debits the buyer by what it credits the seller).
CashConserved ==
    SumOver(balance, DOMAIN balance) = SumOver(SampleBalance, Accounts)

\* C2 case: a trade at a non-zero price has been settled and balances have
\* moved.
CashConservedCase ==
    /\ balance # SampleBalance
    /\ \E a \in Accounts : \E k \in TradeTxns(a) : txns[a][k].amount > 0

IndexedIds == symOrders \cup allOrders \cup UNION {acctOrders[a] : a \in Accounts}

\* C3: every id in the symbol set, an account set or the all-orders set is
\* that of a persisted order whose status is open or partially_filled.
IndicesHoldActiveOrdersOnly ==
    \A id \in IndexedIds : id \in OrderIds /\ IsActive(orders[id])

\* C4: a trade of the matcher between a resting buy and a resting sell limit
\* order executes at the limit price of the order with the smaller
\* timestamp.
ExecutionPriceIsEarlierOrdersPrice ==
    \A i \in TradeIds :
        (trades[i].via \in {"lua", "python"} /\ BothLimit(trades[i])) =>
            trades[i].price =
                IF BuyOrderOf(trades[i]).timestamp
                       < SellOrderOf(trades[i]).timestamp
                THEN BuyOrderOf(trades[i]).price
                ELSE SellOrderOf(trades[i]).price

\* C5: a trade between two limit orders has a price between the sell
\* order's limit price and the buy order's limit price.
TradePriceWithinLimits ==
    \A i \in TradeIds :
        BothLimit(trades[i]) =>
            /\ SellOrderOf(trades[i]).price <= trades[i].price
            /\ trades[i].price <= BuyOrderOf(trades[i]).price

\* C5 case: the Lua script and the Python matcher have each traded two
\* limit orders, the Python one at prices that differ.
TradePriceWithinLimitsCase ==
    /\ \E i \in TradeIds : trades[i].via = "lua" /\ BothLimit(trades[i])
    /\ \E i \in TradeIds :
          /\ trades[i].via = "python" /\ BothLimit(trades[i])
          /\ SellOrderOf(trades[i]).price < BuyOrderOf(trades[i]).price

\* C6: every persisted order has filled_quantity <= quantity.
FilledWithinQuantity ==
    \A id \in OrderIds : orders[id].filled_quantity <= orders[id].quantity

\* C7: a persisted order has status filled if and only if its
\* filled_quantity equals its quantity.
FilledIffFullyFilled ==
    \A id \in OrderIds :
        orders[id].status = "filled"
            <=> orders[id].filled_quantity = orders[id].quantity

\* The quantity the trades ts[from..to] traded for order id.
RECURSIVE TradedQuantity(_, _, _, _)
TradedQuantity(ts, from, to, id) ==
    IF from > to THEN 0
    ELSE (IF id \in {ts[from].buy_order_id, ts[from].sell_order_id}
          THEN ts[from].quantity ELSE 0)
         + TradedQuantity(ts, from + 1, to, id)

\* A step in which a limit order is submitted and stored.
SubmitStep ==
    /\ Len(orders') = Len(orders) + 1
    /\ orders'[Len(orders')].order_type = "limit"

\* C8: when a submit triggers a match, an order that trades less than its
\* remaining quantity is afterwards partially_filled, with filled_quantity
\* increased by the traded quantity, and still in the three indices; an
\* order that trades exactly its remaining quantity is filled.
PartialFillOnSubmit ==
    [][SubmitStep =>
         \A id \in 1..Len(orders') :
            LET filled_before == IF id <= Len(orders)
                                 THEN orders[id].filled_quantity ELSE 0
                remaining == orders'[id].quantity - filled_before
                qty == TradedQuantity(trades', Len(trades) + 1, Len(trades'),
                                      id)
            IN /\ (0 < qty /\ qty < remaining) =>
                     /\ orders'[id].status = "partially_filled"
                     /\ orders'[id].filled_quantity = filled_before + qty
                     /\ id \in symOrders'
                     /\ id \in allOrders'
                     /\ id \in acctOrders'[orders'[id].account_id]
               /\ (0 < qty /\ qty = remaining) =>
                     orders'[id].status = "filled"]_vars

\* C9: settling a trade of q at price p between two existing accounts
\* takes q * p from the buyer's balance and adds it to the seller's, puts one
\* trade transaction of -q * p resp. +q * p at the head of each account's
\* transactions, adds q to the buyer's position and takes q from the
\* seller's, and leaves every other account as it was.
SettlementContract ==
    \A b \in DOMAIN balance, s \in DOMAIN balance, q \in Qtys, p \in Prices :
        b # s =>
            LET R == update_after_trade(Cur, b, s, q, p) IN
            /\ R.balance[b] = balance[b] - q * p
            /\ R.balance[s] = balance[s] + q * p
            /\ Len(R.txns[b]) = Len(txns[b]) + 1
            /\ Tail(R.txns[b]) = txns[b]
            /\ Head(R.txns[b]).type = "trade"
            /\ Head(R.txns[b]).amount = -(q * p)
            /\ Len(R.txns[s]) = Len(txns[s]) + 1
            /\ Tail(R.txns[s]) = txns[s]
            /\ Head(R.txns[s]).type = "trade"
            /\ Head(R.txns[s]).amount = q * p
            /\ R.position[b] = position[b] + q
            /\ R.position[s] = position[s] - q
            /\ \A c \in DOMAIN balance \ {b, s} :
                  /\ R.balance[c] = balance[c]
                  /\ R.position[c] = position[c]
                  /\ R.txns[c] = txns[c]
            /\ R.orders = orders /\ R.trades = trades

\* C9 case: trades have been settled between two accounts, a third account
\* exists, and a seller holds less than it may be asked to deliver.
SettlementContractCase ==
    /\ SettledTrades = MaxSettles
    /\ \E c \in DOMAIN balance : TradeTxns(c) = {}
    /\ \E a \in DOMAIN balance : TradeTxns(a) # {} /\ position[a] < MaxQty

\* What the trades ts[1..k] owe account a in cash and in quantity.
RECURSIVE CashOf(_, _, _)
CashOf(ts, k, a) ==
    IF k = 0 THEN 0
    ELSE CashOf(ts, k - 1, a)
         + (IF ts[k].sell_account_id = a THEN ts[k].quantity * ts[k].price
            ELSE 0)
         - (IF ts[k].buy_account_id = a THEN ts[k].quantity * ts[k].price
            ELSE 0)

RECURSIVE QuantityOf(_, _, _)
QuantityOf(ts, k, a) ==
    IF k = 0 THEN 0
    ELSE QuantityOf(ts, k - 1, a)
         + (IF ts[k].buy_account_id = a THEN ts[k].quantity ELSE 0)
         - (IF ts[k].sell_account_id = a THEN ts[k].quantity ELSE 0)

TradesOf(a) ==
    {k \in TradeIds : a \in {trades[k].buy_account_id,
                             trades[k].sell_account_id}}

Quiescent == matchTasks = 0 /\ marketTasks = {}

\* C10: in a quiescent state every persisted trade, whichever matcher
\* created it, has been settled in the ledger of both accounts: balances,
\* positions and trade transactions account for all the trades.
EveryTradeSettled ==
    Quiescent =>
        \A a \in Accounts :
            /\ balance[a] = SampleBalance[a] + CashOf(trades, Len(trades), a)
            /\ position[a] = SamplePosition[a]
                              + QuantityOf(trades, Len(trades), a)
            /\ Cardinality(TradeTxns(a)) = Cardinality(TradesOf(a))

\* The ids and orders a request may name.
RequestAccounts == Accounts \cup {UnknownAccount}

LimitOrders ==
    {NewOrder(a, side, "limit", p, q) :
        a \in RequestAccounts, side \in Sides, p \in Prices, q \in Qtys}

IncompleteOrders ==
    {WithoutField(o, f) : o \in LimitOrders, f \in RequiredFields}

Stored(R) == Len(R.orders) = Len(orders) + 1

\* C11: update_after_trade applies the buyer's debit, the seller's credit
\* and the two position changes together or not at all.
SettlementAllOrNothing ==
    \A b \in DOMAIN balance \cup {UnknownAccount},
       s \in DOMAIN balance \cup {UnknownAccount}, q \in Qtys, p \in Prices :
        b # s =>
            LET R == update_after_trade(Cur, b, s, q, p) IN
            \/ R = Cur
            \/ /\ b \in DOMAIN balance /\ s \in DOMAIN balance
               /\ R.balance[b] = balance[b] - q * p
               /\ R.balance[s] = balance[s] + q * p
               /\ R.position[b] = position[b] + q
               /\ R.position[s] = position[s] - q

\* C12: every account's cash balance is >= 0.
BalanceNonNegative == \A a \in DOMAIN balance : balance[a] >= 0

\* C13: no account holds a negative position.
PositionNonNegative == \A a \in DOMAIN position : position[a] >= 0

\* The first check of the gate that fails for a complete order ("" when
\* none does).
FirstFailure(a, side, p, q) ==
    IF a \notin DOMAIN balance THEN "Account not found"
    ELSE IF ~active[a] THEN "Account is not active"
    ELSE IF side = "buy" /\ ~(p * q <= balance[a]) THEN "Insufficient funds"
    ELSE IF side = "sell" /\ ~(position[a] >= q)
    THEN "Insufficient position to sell"
    ELSE ""

\* C14: submit_order stores an order exactly when the account exists and
\* is active and a buy's value is at most the balance, a sell's quantity at
\* most the position (equality admitted); otherwise it returns the order
\* rejected with the reason of the first failing check.
AdmissionRule ==
    \A a \in RequestAccounts, side \in Sides, p \in Prices, q \in Qtys :
        LET order == NewOrder(a, side, "limit", p, q)
            R == submit_order(Cur, order)
            reply == submit_order_reply(Cur, order)
            failure == FirstFailure(a, side, p, q)
        IN IF failure = ""
           THEN Stored(R) /\ R.orders[Len(R.orders)].account_id = a
                /\ reply.status # "rejected"
           ELSE ~Stored(R) /\ reply.status = "rejected"
                /\ reply.reject_reason[1] = failure

\* C14 case: orders were admitted, an account is inactive, and the active
\* account could place a buy worth exactly its balance and a sell of
\* exactly its position.
AdmissionRuleCase ==
    /\ Len(orders) > 0
    /\ \E a \in Accounts : ~active[a]
    /\ \E a \in Accounts, p \in Prices, q \in Qtys, r \in Qtys :
          active[a] /\ p * q = balance[a] /\ position[a] = r

\* C15: a submit that ends in rejection changes nothing: no order, index,
\* trade, balance, position or transaction, and no match pass is run.
RejectionHasNoEffect ==
    \A order \in LimitOrders \cup IncompleteOrders :
        submit_order_reply(Cur, order).status = "rejected"
            => submit_order(Cur, order) = Cur

\* C15 case: a submission would be rejected while a match pass would
\* change the store.
RejectionHasNoEffectCase ==
    /\ match_orders(Cur).S # Cur
    /\ \E order \in LimitOrders :
          submit_order_reply(Cur, order).status = "rejected"

\* C16: an order the gate rejects is persisted with status rejected.
RejectedOrderPersisted ==
    \A order \in LimitOrders :
        submit_order_reply(Cur, order).status = "rejected" =>
            LET R == submit_order(Cur, order) IN
            Stored(R) /\ R.orders[Len(R.orders)].status = "rejected"

\* C17: a cancel that succeeds removes the order, in the same step, from
\* the symbol set, the account set and the all-orders set.
CancelRemovesFromIndices ==
    [][\A id \in 1..Len(orders) :
          (orders[id].status = "open" /\ orders'[id].status = "cancelled") =>
              /\ id \notin symOrders'
              /\ id \notin allOrders'
              /\ id \notin acctOrders'[orders[id].account_id]]_vars

\* C18: a cancel asked by another account than the order's is refused with
\* a message saying so and changes nothing.
ForeignCancelRefused ==
    \A id \in OrderIds, a \in RequestAccounts :
        a # orders[id].account_id =>
            /\ cancel_order(Cur, id, a) = Cur
            /\ cancel_order_reply(Cur, id, a) =
                  [success |-> FALSE,
                   message |-> <<"Not authorized to cancel this order">>]

\* C18 case: an open order exists that another account may try to cancel,
\* after a cancel by an owner went through.
ForeignCancelRefusedCase ==
    /\ \E id \in OrderIds : orders[id].status = "open"
    /\ \E id \in OrderIds : orders[id].status = "cancelled"

\* C19: no step turns a cancelled or filled order into anything else by a
\* cancel: the owner's cancel of such an order fails, reports the status,
\* changes nothing, and does so again when repeated.
ClosedCancelIsNoOp ==
    \A id \in OrderIds :
        orders[id].status \in {"cancelled", "filled"} =>
            LET a == orders[id].account_id
                R == cancel_order(Cur, id, a)
                refusal == [success |-> FALSE,
                            message |-> <<"Order cannot be cancelled - status is",
                                          orders[id].status>>]
            IN /\ R = Cur
               /\ cancel_order_reply(Cur, id, a) = refusal
               /\ cancel_order(R, id, a) = Cur
               /\ cancel_order_reply(R, id, a) = refusal

\* C19 case: one order was filled by a match pass and another one was
\* cancelled.
ClosedCancelIsNoOpCase ==
    /\ \E id \in OrderIds :
          /\ orders[id].status = "filled"
          /\ \E i \in TradeIds : id \in {trades[i].buy_order_id,
                                          trades[i].sell_order_id}
    /\ \E id \in OrderIds : orders[id].status = "cancelled"

\* C20: the owner can cancel a partially filled order: it becomes cancelled
\* and keeps its filled quantity.
PartiallyFilledCancellable ==
    \A id \in OrderIds :
        orders[id].status = "partially_filled" =>
            LET R == cancel_order(Cur, id, orders[id].account_id) IN
            /\ R.orders[id].status = "cancelled"
            /\ R.orders[id].filled_quantity = orders[id].filled_quantity

\* The values an edit request may carry (price 0: no price given).
EditPrices == {0} \cup Prices

\* C21: edit_order on a filled, cancelled or rejected order is refused: the
\* store is unchanged and no match_orders task is created.
TerminalEditRefused ==
    \A id \in OrderIds, p \in EditPrices, q \in Qtys :
        orders[id].status \in {"filled", "cancelled", "rejected"} =>
            /\ ~EditAccepted(Cur, id, p, q)
            /\ edit_order(Cur, id, p, q) = Cur

\* C21 case: a filled and a cancelled order exist while an accepted edit of
\* another order has its match pass still to run.
TerminalEditRefusedCase ==
    /\ \E id \in OrderIds : orders[id].status = "filled"
    /\ \E id \in OrderIds : orders[id].status = "cancelled"
    /\ matchTasks > 0

\* C22: an edit asked on behalf of another account than the order's owner
\* leaves the store unchanged.
ForeignEditRefused ==
    \A id \in OrderIds, a \in Accounts, p \in EditPrices, q \in Qtys :
        a # orders[id].account_id =>
            orders_router_edit_order(Cur, a, id, p, q) = Cur

\* The trades a step adds, the parties of a trade, and the limit orders
\* that rest in the book with quantity left.
NewTradeIds == (Len(trades) + 1)..Len(trades')

Parties(t) == {t.buy_order_id, t.sell_order_id}

CounterpartyOf(t, id) ==
    IF t.buy_order_id = id THEN t.sell_order_id ELSE t.buy_order_id

RestingLimit(id) ==
    /\ id \in symOrders
    /\ IsActive(orders[id])
    /\ orders[id].order_type = "limit"
    /\ orders[id].filled_quantity < orders[id].quantity

BetterPrice(o1, o2) ==
    IF o1.type = "buy" THEN o1.price > o2.price ELSE o1.price < o2.price

HasPriority(o1, o2) ==
    /\ o1.type = o2.type
    /\ \/ BetterPrice(o1, o2)
       \/ o1.price = o2.price /\ o1.timestamp < o2.timestamp

\* C23: price-time priority.  When a resting limit order trades, every
\* resting limit order of the same side that has priority over it (better
\* price, or same price and earlier timestamp) and may trade with the same
\* counterparty (another account's order) has traded before it in that
\* pass.
PriceTimePriority ==
    [][\A k \in NewTradeIds : \A o1, o2 \in 1..Len(orders) :
          LET t == trades'[k]
              c == CounterpartyOf(t, o2)
          IN (/\ o1 # o2 /\ o2 \in Parties(t) /\ c # o1
              /\ RestingLimit(o1) /\ RestingLimit(o2)
              /\ HasPriority(orders[o1], orders[o2])
              /\ orders'[c].account_id # orders[o1].account_id)
             => \E j \in NewTradeIds : j < k /\ o1 \in Parties(trades'[j])]_vars

\* The limit orders a market order may trade with: active orders of the
\* other side and of other accounts, resting in the book with quantity left.
Liquidity(id) ==
    {i \in 1..Len(orders) : /\ RestingLimit(i)
                            /\ orders[i].type # orders[id].type
                            /\ orders[i].account_id # orders[id].account_id}

RECURSIVE Remaining(_)
Remaining(ids) ==
    IF ids = {} THEN 0
    ELSE LET i == CHOOSE x \in ids : TRUE
         IN (orders[i].quantity - orders[i].filled_quantity)
            + Remaining(ids \ {i})

\* The step in which the process_market_order task of a fresh market order
\* runs.
MarketStep(id) ==
    /\ id \in marketTasks /\ id \notin marketTasks'
    /\ orders[id].status = "open" /\ orders[id].filled_quantity = 0

\* C25: process_market_order trades a fresh market order of quantity Q with
\* the resting limit orders of the other side and of other accounts, each
\* at its limit price, best price first, until Q is exhausted or nothing is
\* left: it trades min(Q, total resting quantity), and an order is touched
\* only when every better-priced one is used up.
MarketOrderWalksBook ==
    [][\A id \in 1..Len(orders) : MarketStep(id) =>
          /\ \A k \in NewTradeIds :
                LET t == trades'[k]
                    c == CounterpartyOf(t, id)
                IN /\ id \in Parties(t)
                   /\ c \in Liquidity(id)
                   /\ t.price = orders[c].price
                   /\ \A i \in Liquidity(id) :
                         BetterPrice(orders[i], orders[c]) =>
                            TradedQuantity(trades', Len(trades) + 1,
                                           Len(trades'), i)
                              = orders[i].quantity - orders[i].filled_quantity
          /\ TradedQuantity(trades', Len(trades) + 1, Len(trades'), id)
               = Min(orders[id].quantity, Remaining(Liquidity(id)))]_vars

\* C27: the placeholder price 0 of a market order is never an execution
\* price, and the limit matchers (Lua script, Python matcher) trade no
\* market order.
MarketPriceUnused ==
    \A k \in TradeIds :
        /\ trades[k].price # 0
        /\ trades[k].via \in {"lua", "python"} => BothLimit(trades[k])

\* The value (price * quantity) the trades ts[from..to] traded for order id.
RECURSIVE TradedValue(_, _, _, _)
TradedValue(ts, from, to, id) ==
    IF from > to THEN 0
    ELSE (IF id \in Parties(ts[from])
          THEN ts[from].price * ts[from].quantity ELSE 0)
         + TradedValue(ts, from + 1, to, id)

\* C26: when process_market_order has run, the execution_price of the
\* market order times the quantity of all its fills equals the sum of
\* price * quantity over all its trades.
ExecutionPriceIsVWAP ==
    [][\A id \in 1..Len(orders) :
          (/\ id \in marketTasks /\ id \notin marketTasks'
           /\ orders'[id].execution_price # <<>>) =>
              LET execution_price == orders'[id].execution_price IN
              execution_price[1] * TradedQuantity(trades', 1, Len(trades'), id)
                = execution_price[2] * TradedValue(trades', 1, Len(trades'), id)]_vars

\* C29: when the submit of an ioc order returns, the order is filled or
\* cancelled and is in none of the three indices.
IocRemainderCancelled ==
    [][(/\ Len(orders') = Len(orders) + 1
        /\ orders'[Len(orders')].tif = "ioc") =>
          LET id == Len(orders') IN
          /\ orders'[id].status \in {"cancelled", "filled"}
          /\ id \notin symOrders'
          /\ id \notin allOrders'
          /\ id \notin acctOrders'[orders'[id].account_id]]_vars

\* The resting orders a new order of the given side and price crosses.
Crossing(side, price) ==
    {i \in symOrders : /\ IsActive(orders[i])
                       /\ orders[i].type # side
                       /\ orders[i].filled_quantity < orders[i].quantity
                       /\ IF side = "buy" THEN orders[i].price <= price
                                         ELSE orders[i].price >= price}

\* C30: a fok order that passes the risk gate while the crossing orders of
\* the other side hold less than its quantity is not placed: the store is
\* unchanged.
FokRejectedWhenUnfillable ==
    \A a \in Accounts, side \in Sides, p \in Prices, q \in Qtys :
        (/\ can_trade(Cur, a, side, p, q).ok
         /\ Remaining(Crossing(side, p)) < q)
            => submit_order(Cur, TifOrder(a, side, p, q, "fok")) = Cur

\* A market order left pending with nothing filled, while limit orders of
\* the other side and of another account rest in the book.
PendingWithLiquidity(id) ==
    /\ id \in OrderIds
    /\ orders[id].order_type = "market"
    /\ orders[id].status = "pending"
    /\ orders[id].filled_quantity = 0
    /\ Liquidity(id) # {}

\* C28: with the matching loops running, a pending market order that has
\* eligible orders resting against it is eventually executed (or the
\* resting orders are gone).
PendingMarketOrderExecuted ==
    \A id \in 1..MaxGateOrders :
        PendingWithLiquidity(id) ~> ~PendingWithLiquidity(id)

\* The trades a store holds beyond those of the current state.
NewTradesOf(S) == SubSeq(S.trades, Len(trades) + 1, Len(S.trades))

\* The first new trade of an outcome respects the tie rule: no order with a
\* smaller id shares side, price and timestamp with a matched order while
\* being open for the same counterparty.
TieBrokenById(order, S) ==
    NewTradesOf(S) # <<>> =>
        LET t == NewTradesOf(S)[1]
            stored == StoreOrder(Cur, order)
            rival(matched, other) ==
                \E j \in 1..(matched - 1) :
                    /\ j \in stored.sym
                    /\ IsActive(stored.orders[j])
                    /\ stored.orders[j].type = stored.orders[matched].type
                    /\ stored.orders[j].price = stored.orders[matched].price
                    /\ stored.orders[j].timestamp
                          = stored.orders[matched].timestamp
                    /\ stored.orders[j].account_id
                          # stored.orders[other].account_id
        IN ~rival(t.buy_order_id, t.sell_order_id)
           /\ ~rival(t.sell_order_id, t.buy_order_id)

\* C24: whatever has been submitted so far, the next submission has one
\* outcome only: any two runs of it leave the same sequence of trades, and
\* between two orders of one side with the same price and timestamp the one
\* with the smaller id is matched first.
ReplayDeterministic ==
    \A order \in ReplayOrders :
        /\ \A S1, S2 \in submit_order_replay(Cur, order) :
              S1.trades = S2.trades
        /\ \A S \in submit_order_replay(Cur, order) : TieBrokenById(order, S)

\* The ids an index of a store holds, all indices together.
Indexed(S) == S.sym \cup S.all \cup UNION {S.acct[a] : a \in Accounts}

ReturnedOrderIsStored ==
    \A order \in LimitOrders :
        submit_order_reply(Cur, order).status # "rejected" =>
            LET ret == submit_order_returned(Cur, order)
                stored == submit_order(Cur, order).orders[Len(orders) + 1]
            IN /\ ~ret.raised
               /\ ret.order.status = stored.status
               /\ ret.order.filled_quantity = stored.filled_quantity

\* C37: the filled quantity of every stored order is the sum of the
\* quantities of the stored trades that name it as buy or sell order.
FilledQuantityIsTraded ==
    \A id \in OrderIds :
        orders[id].filled_quantity
            = TradedQuantity(trades, 1, Len(trades), id)

\* The trades 1..k an account is a party of.
TradesOfAccount(a, k) ==
    Cardinality({j \in 1..k : a \in {trades[j].buy_account_id,
                                       trades[j].sell_account_id}})

\* The ledger shows the settlement of trade k: each party has a trade
\* transaction (with its balance and position change) for every trade up to
\* k it is a party of.
LedgerSettled(k) ==
    \A a \in {trades[k].buy_account_id, trades[k].sell_account_id} :
        Cardinality(TradeTxns(a)) >= TradesOfAccount(a, k)

\* The store shows the order updates of trade k.
OrdersUpdated(k) ==
    \A id \in {trades[k].buy_order_id, trades[k].sell_order_id} :
        /\ orders[id].status # "open"
        /\ orders[id].status = "filled" => id \notin IndexedIds

\* C31: when a subscriber receives the trade_executed event of a trade, the
\* store it reads shows the ledger settlement of the trade and the updates
\* of its two orders.
EventAfterSettlement ==
    [][\A e \in notifications \ notifications' :
          LedgerSettled(e.trade) /\ OrdersUpdated(e.trade)]_vars

\* The open and partially filled orders of a side the script would load.
ActiveSide(side) ==
    {i \in symOrders : IsActive(orders[i]) /\ (orders[i].type = "buy") = side}

\* C40: a pass of the matching script over the book ends within
\* |buys| + |sells| iterations, whatever remaining quantities submits and
\* edits have left: every iteration that does not end the loop moves one of
\* the two indices on.
LuaLoopTerminates ==
    LuaIterations(Cur, SortBuys(ActiveSide(TRUE), orders),
                  SortSells(ActiveSide(FALSE), orders), 1, 1, 0)
        <= Cardinality(ActiveSide(TRUE)) + Cardinality(ActiveSide(FALSE))

\* A pass would match an order that an edit has left without a positive
\* remaining quantity.
LuaLoopTerminatesCase ==
    \E b \in ActiveSide(TRUE), s \in ActiveSide(FALSE) :
        /\ LuaCrosses(orders[b], orders[s])
        /\ ~LuaSameAccount(orders[b], orders[s])
        /\ LuaTradeQuantity(orders[b], orders[s]) <= 0
        /\ \E i \in {b, s} : orders[i].status = "partially_filled"

\* The pairs of a store a matcher could trade: a buy and a sell of the
\* symbol set, both open or partially filled, of different accounts, the
\* buy priced at or above the sell.
TradablePairs(S) ==
    {<<b, s>> \in S.sym \X S.sym :
        /\ IsActive(S.orders[b]) /\ S.orders[b].type = "buy"
        /\ IsActive(S.orders[s]) /\ S.orders[s].type = "sell"
        /\ S.orders[b].account_id # S.orders[s].account_id
        /\ S.orders[b].price >= S.orders[s].price}

\* C32: when a matching pass (match_orders) returns, the book holds no
\* tradable pair.
UncrossedAfterPass == TradablePairs(match_orders(Cur).S) = {}

\* C33: a tradable pair does not stay in the book for ever: with neither
\* order cancelled or edited, a trade takes one of them out of the pair.
CrossingPairEventuallyTrades ==
    \A b \in 1..MaxOrders, s \in 1..MaxOrders :
        (<<b, s>> \in TradablePairs(Cur))
            ~> (<<b, s>> \notin TradablePairs(Cur))

\* C34: once an order is cancelled (only a successful cancel_order sets the
\* status), no later step changes its status and no trade created later
\* names it, also while its id is still in the indices.
CancelledIsFinal ==
    [][\A id \in 1..Len(orders) :
          orders[id].status = "cancelled" =>
              /\ orders'[id].status = "cancelled"
              /\ \A k \in (Len(trades) + 1)..Len(trades') :
                    id \notin {trades'[k].buy_order_id,
                               trades'[k].sell_order_id}]_vars

\* A market order has traded with a resting order although a cancelled
\* order of another account than its own, still in the symbol set, has the
\* better price on the same side: the cancelled order was passed over.
CancelledIsFinalCase ==
    \E id \in symOrders, k \in 1..Len(trades) :
        LET b == trades[k].buy_order_id
            s == trades[k].sell_order_id
            m == IF orders[b].order_type = "market" THEN b ELSE s
            r == IF m = b THEN s ELSE b
        IN /\ orders[id].status = "cancelled"
           /\ trades[k].via = "market"
           /\ orders[m].order_type = "market"
           /\ orders[r].order_type = "limit"
           /\ orders[id].type = orders[r].type
           /\ orders[id].account_id # orders[m].account_id
           /\ BetterPrice(orders[id], orders[r])

RECURSIVE JournalSum(_, _)
JournalSum(ts, n) == IF n = 0 THEN 0 ELSE ts[n].amount + JournalSum(ts, n - 1)

TradesSettlingAs(ts, a, v) ==
    {<<k, side>> \in (1..Len(ts)) \X {"buy", "sell"} :
        \/ side = "buy" /\ ts[k].buy_account_id = a
                        /\ -(ts[k].quantity * ts[k].price) = v
        \/ side = "sell" /\ ts[k].sell_account_id = a
                         /\ ts[k].quantity * ts[k].price = v}

SettlementsAs(tx, a, v) ==
    {k \in 1..Len(tx[a]) : tx[a][k].type = "trade" /\ tx[a][k].amount = v}

SettledValues == (-(MaxQty * MaxPrice))..(MaxQty * MaxPrice)

\* C39: whichever of the submit-triggered, periodic, auto and edit-triggered
\* matchers run, and in whatever order, a step only appends trades to the
\* trade records (none is rewritten or created again), and the journal of
\* every account holds at most one settlement entry per side of a trade it
\* is a party of: no trade is settled twice.
SettledAtMostOnce ==
    [][/\ Len(trades') >= Len(trades)
       /\ SubSeq(trades', 1, Len(trades)) = trades
       /\ \A a \in Accounts, v \in SettledValues :
            Cardinality(SettlementsAs(txns', a, v))
                <= Cardinality(TradesSettlingAs(trades', a, v))]_vars

\* Two trades, the second with the third order and the first without it,
\* each settled for both of its parties.
SettledAtMostOnceCase ==
    /\ Len(trades) = 2
    /\ 3 \notin {trades[1].buy_order_id, trades[1].sell_order_id}
    /\ 3 \in {trades[2].buy_order_id, trades[2].sell_order_id}
    /\ \A a \in Accounts : Cardinality(TradeTxns(a)) = 2

====
